---- MODULE Spec2Model ----
(***************************************************************************)
(* Model of drivers/power/charger_limiter.c: the sysfs tunables (enabled,  *)
(* charging_below, charging_limit), the delayed work charger_limiter_work  *)
(* and its worker, and the start/stop of the limiter.                      *)
(***************************************************************************)
EXTENDS Integers, Sequences, FiniteSets, TLC

VARIABLES
    charging_off,       \* static bool charging_off
    cl_is_enabled,      \* static bool cl_is_enabled
    charge_should_off,  \* static bool charge_should_off
    enabled,            \* static int enabled
    charging_below,     \* static int charging_below
    charging_limit,     \* static int charging_limit
    wq,                 \* charge_limiter_wq: "none", "alive", "null", "destroyed"
    work_pending,       \* charger_limiter_work is queued on the workqueue
    work_delay,         \* the delay (ms) the queued work was queued with
    hw_charging,        \* the charging-enable line behind power_supply_set_charging_enabled
    oops,               \* a NULL pointer was dereferenced (kernel oops)
    last_op,            \* the handler that ran last
    ret,                \* what that handler returned: "count", "EINVAL", "void"
    sample,             \* what the last worker cycle read from the power supplies
    batt,               \* power_supply_get_by_name("battery") of the last stop: "found", "null"
    calls,              \* the power_supply_set_charging_enabled calls of the last handler
    prev,               \* what the handler before the last one did (see Class)
    seen_upper,         \* the last cycle since the start read a sample at the limit (see Upper)
    wpc,                \* where the worker is: "idle", "upper" (line 77), "requeue" (line 93), "dead"
    spc,                \* where the sysfs write is: "idle", "below" (line 182), "limit" (line 214),
                        \* "stop1", "flush1", "stop2", "flush2" (stop_charger_limiter)
    ms_timer,           \* ms_timer of the running worker
    requeue_refused     \* the last reschedule_worker found the work being cancelled

vars == <<charging_off, cl_is_enabled, charge_should_off, enabled, charging_below,
          charging_limit, wq, work_pending, work_delay, hw_charging, oops,
          last_op, ret, sample, batt, calls, prev, seen_upper,
          wpc, spc, ms_timer, requeue_refused>>

\* the positions of the two threads, which only the interleaved steps use
race == <<wpc, spc, ms_timer, requeue_refused>>

----------------------------------------------------------------------------
(* Inputs *)

\* the largest unsigned value a sysfs write carries in the model
MaxInput == 101

\* sscanf(buf, "%u", &input) != 1
NoParse == -1

\* values written to charging_below / charging_limit
ThresholdInputs == {0, 3, 97, 100, MaxInput}

\* values written to enabled
EnabledInputs == {0, 1, 2}

\* POWER_SUPPLY_PROP_STATUS values the worker tells apart
StatusValues == {"Charging", "Discharging"}

\* POWER_SUPPLY_PROP_CAPACITY values, around the thresholds in force
CapacityValues ==
    {charging_below - 1, charging_below, charging_below + 1,
     charging_limit, charging_limit + 1}

\* what power_supply_get_by_name and ->get_property give one cycle:
\*   "ok"      both supplies found, both have get_property
\*   "noprop"  both supplies found, one has no get_property
\*   "nullpsy" a supply is not registered (power_supply_get_by_name is NULL)
Samples ==
    [kind : {"ok"}, status : StatusValues, capacity : CapacityValues, usb : {0, 1}]
    \cup {[kind |-> k, status |-> "Discharging", capacity |-> 0, usb |-> 0] : k \in {"noprop", "nullpsy"}}

NoSample == [kind |-> "none", status |-> "Discharging", capacity |-> 0, usb |-> 0]

\* the return codes of the (at most two) actuator calls of one handler: TRUE is rc == 0
Outcomes == [1..2 -> BOOLEAN]

----------------------------------------------------------------------------
(* power_supply_set_charging_enabled: rc == 0 applies the command to the line *)
power_supply_set_charging_enabled(hw, enable, ok) ==
    IF ok THEN enable ELSE hw

\* A handler's running state: c.off is charging_off, c.should is charge_should_off,
\* c.hw the charging line, c.calls the actuator calls made so far, c.ms is ms_timer.
Call(c, enable, oks) ==
    LET ok == oks[Len(c.calls) + 1] IN
    [c EXCEPT !.hw = power_supply_set_charging_enabled(c.hw, enable, ok),
              !.calls = Append(c.calls, [enable |-> enable, ok |-> ok])]

\* faulty variant: the disable branch does not look at charging_off
enable_disable_charging_always_disable(c, enable, oks) ==
    IF c.off /\ enable
    THEN LET d == Call(c, TRUE, oks) IN
         IF d.calls[Len(d.calls)].ok THEN [d EXCEPT !.off = FALSE] ELSE d
    ELSE IF ~enable
    THEN LET d == Call(c, FALSE, oks) IN
         IF d.calls[Len(d.calls)].ok THEN [d EXCEPT !.off = TRUE] ELSE d
    ELSE c

\* faulty variant: the enable branch does not look at charging_off
enable_disable_charging_always_enable(c, enable, oks) ==
    IF enable
    THEN LET d == Call(c, TRUE, oks) IN
         IF d.calls[Len(d.calls)].ok THEN [d EXCEPT !.off = FALSE] ELSE d
    ELSE IF ~c.off /\ ~enable
    THEN LET d == Call(c, FALSE, oks) IN
         IF d.calls[Len(d.calls)].ok THEN [d EXCEPT !.off = TRUE] ELSE d
    ELSE c

\* faulty variant: charging_off is updated whatever rc is
enable_disable_charging_ignore_rc(c, enable, oks) ==
    IF c.off /\ enable
    THEN [Call(c, TRUE, oks) EXCEPT !.off = FALSE]
    ELSE IF ~c.off /\ ~enable
    THEN [Call(c, FALSE, oks) EXCEPT !.off = TRUE]
    ELSE c

enable_disable_charging(c, enable, oks) ==
    IF c.off /\ enable
    THEN LET d == Call(c, TRUE, oks) IN
         IF d.calls[Len(d.calls)].ok THEN [d EXCEPT !.off = FALSE] ELSE d
    ELSE IF ~c.off /\ ~enable
    THEN LET d == Call(c, FALSE, oks) IN
         IF d.calls[Len(d.calls)].ok THEN [d EXCEPT !.off = TRUE] ELSE d
    ELSE c

\* faulty variant: the resume below charging_below is left to the charging/USB branch
worker_resume_below_skipped(c, s, oks) == c

\* charger_limiter_worker, lines 74-75
worker_resume_below(c, s, oks) ==
    IF s.capacity <= charging_below
    THEN enable_disable_charging(c, TRUE, oks)
    ELSE c

\* faulty variant: charging is disabled on the first sample at the limit
worker_upper_band_no_debounce(c, s, oks) ==
    IF s.status = "Charging" \/ s.usb # 0
    THEN IF s.capacity <= charging_below
         THEN enable_disable_charging(c, TRUE, oks)
         ELSE IF s.capacity >= charging_limit
         THEN [enable_disable_charging(c, FALSE, oks) EXCEPT !.should = FALSE]
         ELSE c
    ELSE c

\* faulty variant: the upper band is evaluated whatever the status and USB are
worker_upper_band_ungated(c, s, oks) ==
    IF s.capacity <= charging_below
    THEN enable_disable_charging(c, TRUE, oks)
    ELSE IF s.capacity >= charging_limit
    THEN IF c.should
         THEN [enable_disable_charging(c, FALSE, oks) EXCEPT !.should = FALSE]
         ELSE [c EXCEPT !.should = TRUE, !.ms = 10000]
    ELSE c

\* charger_limiter_worker, lines 77-90
worker_upper_band(c, s, oks) ==
    IF s.status = "Charging" \/ s.usb # 0
    THEN IF s.capacity <= charging_below
         THEN enable_disable_charging(c, TRUE, oks)
         ELSE IF s.capacity >= charging_limit
         THEN IF c.should
              THEN [enable_disable_charging(c, FALSE, oks) EXCEPT !.should = FALSE]
              ELSE [c EXCEPT !.should = TRUE, !.ms = 10000]
         ELSE c
    ELSE c

\* charger_limiter_worker up to the reschedule label; c.ms starts at 1000
charger_limiter_worker(c, s, oks) ==
    IF s.kind = "noprop"
    THEN [c EXCEPT !.ms = 5000]
    ELSE worker_upper_band(worker_resume_below(c, s, oks), s, oks)

\* the handler state at the entry of a handler
Entry ==
    [off |-> charging_off, should |-> charge_should_off, hw |-> hw_charging,
     calls |-> <<>>, ms |-> 1000]

----------------------------------------------------------------------------
(* sysfs stores *)

\* if (input > 100) input = 100;
clamp(input) == IF input > 100 THEN 100 ELSE input

\* faulty variant: a value equal to charging_limit is accepted
store_charging_below_value_equal(input) ==
    IF clamp(input) > charging_limit THEN charging_limit - 5 ELSE clamp(input)

store_charging_below_value(input) ==
    IF clamp(input) >= charging_limit THEN charging_limit - 5 ELSE clamp(input)

store_charging_limit_value(input) ==
    IF clamp(input) <= charging_below THEN charging_below + 5 ELSE clamp(input)

\* sprintf(buf, "%u\n", x) of an int x with -65536 < x < 65536: the unsigned
\* 32-bit value printed, as its two 16-bit halves <<high, low>>
show(x) == IF x < 0 THEN <<65535, 65536 + x>> ELSE <<0, x>>

\* faulty variant: the shutdown makes no resume call
stop_charger_limiter_no_resume(c, batt_psy, oks) == c

\* stop_charger_limiter, lines 115-116
stop_charger_limiter(c, batt_psy, oks) ==
    IF batt_psy THEN enable_disable_charging(c, TRUE, oks) ELSE c

----------------------------------------------------------------------------
Init ==
    /\ charging_off = FALSE
    /\ cl_is_enabled = FALSE
    /\ charge_should_off = FALSE
    /\ enabled = 0
    /\ charging_below = 95
    /\ charging_limit = 100
    /\ wq = "none"
    /\ work_pending = FALSE
    /\ work_delay = 0
    /\ hw_charging = TRUE
    /\ oops = FALSE
    /\ last_op = "init"
    /\ ret = "void"
    /\ sample = NoSample
    /\ batt = "none"
    /\ calls = <<>>
    /\ prev = "other"
    /\ seen_upper = FALSE
    /\ wpc = "idle"
    /\ spc = "idle"
    /\ ms_timer = 1000
    /\ requeue_refused = FALSE

\* the limiter is running: started, with a workqueue
Running == cl_is_enabled /\ wq = "alive"

\* the worker oopsed: its work item never finishes and is never queued again
WorkerDead == Running /\ ~work_pending

\* the sample of a cycle is at or above charging_limit, with charging or USB
Upper(s) ==
    /\ s.kind = "ok"
    /\ s.capacity >= charging_limit
    /\ (s.status = "Charging" \/ s.usb # 0)

\* the last handler was a cycle that started with charging_off and
\* charge_should_off false and armed charge_should_off
Armed ==
    /\ last_op = "worker"
    /\ Upper(sample)
    /\ calls = <<>>
    /\ work_delay = 10000
    /\ charge_should_off
    /\ ~charging_off

\* the last handler was a cycle whose actuator calls all failed
Failed ==
    /\ last_op = "worker"
    /\ calls # <<>>
    /\ \A i \in 1..Len(calls) : ~calls[i].ok

\* what the handler that ran last did
Class ==
    IF Armed THEN "armed"
    ELSE IF Failed THEN (IF calls[1].enable THEN "failed_resume" ELSE "failed_stop")
    ELSE "other"

\* the delayed work fires
Worker ==
    /\ work_pending
    /\ UNCHANGED race
    /\ prev' = Class
    /\ batt' = "none"
    /\ last_op' = "worker"
    /\ ret' = "void"
    /\ \E s \in Samples :
         /\ sample' = s
         /\ seen_upper' = Upper(s)
         /\ IF s.kind = "nullpsy"
            THEN \* batt_psy->get_property / usb_psy->get_property on NULL
                 /\ oops' = TRUE
                 /\ work_pending' = FALSE
                 /\ calls' = <<>>
                 /\ UNCHANGED <<charging_off, charge_should_off, hw_charging, work_delay>>
            ELSE \E oks \in Outcomes :
                 LET c == charger_limiter_worker(Entry, s, oks) IN
                 /\ charging_off' = c.off
                 /\ charge_should_off' = c.should
                 /\ hw_charging' = c.hw
                 /\ calls' = c.calls
                 /\ work_pending' = TRUE        \* reschedule_worker(ms_timer)
                 /\ work_delay' = c.ms
                 /\ UNCHANGED oops
    /\ UNCHANGED <<cl_is_enabled, enabled, charging_below, charging_limit, wq>>

\* store_enabled returns without starting or stopping anything
StoreEnabledOnly(r) ==
    /\ ret' = r
    /\ calls' = <<>>
    /\ batt' = "none"
    /\ UNCHANGED <<charging_off, cl_is_enabled, wq, work_pending, work_delay,
                   hw_charging, oops, seen_upper>>

\* store_enabled, with start_charger_limiter and stop_charger_limiter
StoreEnabled ==
    /\ UNCHANGED race
    /\ prev' = Class
    /\ last_op' = "store_enabled"
    /\ sample' = NoSample
    /\ \E input \in EnabledInputs \cup {NoParse} :
         IF input = NoParse
         THEN StoreEnabledOnly("EINVAL") /\ UNCHANGED enabled
         ELSE /\ enabled' = input
              /\ IF input # 0
                 THEN IF ~cl_is_enabled
                      THEN \* start_charger_limiter; its return value is dropped
                           \E alloc \in BOOLEAN :
                           /\ wq' = IF alloc THEN "alive" ELSE "null"
                           /\ work_pending' = alloc
                           /\ work_delay' = IF alloc THEN 1000 ELSE work_delay
                           /\ cl_is_enabled' = TRUE
                           /\ ret' = "count"
                           /\ calls' = <<>>
                           /\ batt' = "none"
                           /\ seen_upper' = FALSE
                           /\ UNCHANGED <<charging_off, hw_charging, oops>>
                      ELSE StoreEnabledOnly("count")
                 ELSE IF ~cl_is_enabled
                      THEN StoreEnabledOnly("count")
                      ELSE IF WorkerDead
                      THEN \* cancel_delayed_work_sync waits for the dead worker
                           StoreEnabledOnly("void")
                      ELSE IF wq # "alive"
                      THEN \* destroy_workqueue(NULL)
                           \E batt_psy \in BOOLEAN :
                           /\ oops' = TRUE
                           /\ ret' = "void"
                           /\ calls' = <<>>
                           /\ batt' = IF batt_psy THEN "found" ELSE "null"
                           /\ UNCHANGED <<charging_off, cl_is_enabled, wq, work_pending,
                                          work_delay, hw_charging, seen_upper>>
                      ELSE \* stop_charger_limiter
                           \E batt_psy \in BOOLEAN, oks \in Outcomes :
                           LET c == stop_charger_limiter(Entry, batt_psy, oks) IN
                           /\ work_pending' = FALSE
                           /\ wq' = "destroyed"
                           /\ charging_off' = c.off
                           /\ hw_charging' = c.hw
                           /\ calls' = c.calls
                           /\ batt' = IF batt_psy THEN "found" ELSE "null"
                           /\ cl_is_enabled' = FALSE
                           /\ ret' = "count"
                           /\ UNCHANGED <<work_delay, oops, seen_upper>>
    /\ UNCHANGED <<charge_should_off, charging_below, charging_limit>>

StoreChargingBelow ==
    /\ UNCHANGED race
    /\ prev' = Class
    /\ last_op' = "store_charging_below"
    /\ \E input \in ThresholdInputs \cup {NoParse} :
         /\ ret' = IF input = NoParse THEN "EINVAL" ELSE "count"
         /\ charging_below' = IF input = NoParse THEN charging_below
                              ELSE store_charging_below_value(input)
    /\ sample' = NoSample
    /\ batt' = "none"
    /\ calls' = <<>>
    /\ UNCHANGED <<charging_off, cl_is_enabled, charge_should_off, enabled, charging_limit,
                   wq, work_pending, work_delay, hw_charging, oops, seen_upper>>

StoreChargingLimit ==
    /\ UNCHANGED race
    /\ prev' = Class
    /\ last_op' = "store_charging_limit"
    /\ \E input \in ThresholdInputs \cup {NoParse} :
         /\ ret' = IF input = NoParse THEN "EINVAL" ELSE "count"
         /\ charging_limit' = IF input = NoParse THEN charging_limit
                              ELSE store_charging_limit_value(input)
    /\ sample' = NoSample
    /\ batt' = "none"
    /\ calls' = <<>>
    /\ UNCHANGED <<charging_off, cl_is_enabled, charge_should_off, enabled, charging_below,
                   wq, work_pending, work_delay, hw_charging, oops, seen_upper>>

Next ==
    \/ Worker
    \/ StoreEnabled
    \/ StoreChargingBelow
    \/ StoreChargingLimit

Spec == Init /\ [][Next]_vars

\* the workqueue runs a queued work item once its delay has passed
FairSpec == Spec /\ WF_vars(Worker)

----------------------------------------------------------------------------
(* The same handlers, step by step: the worker runs on the workqueue while  *)
(* one sysfs write at a time runs in the writing process; nothing in the    *)
(* file locks the statics they share.                                       *)

\* faulty variant: the resume call is made before the work is cancelled
stop_steps_resume_first == <<"resume", "cancel">>

\* stop_charger_limiter: cancel_delayed_work_sync and destroy_workqueue
\* (lines 112-113), then enable_disable_charging (lines 115-116)
stop_steps == <<"cancel", "resume">>

\* cancel_delayed_work_sync has taken the pending work and waits for a
\* running worker; queue_delayed_work does not queue the work meanwhile
Cancelling == spc \in {"flush1", "flush2"}

\* the values written to the thresholds while a cycle may run
RaceThresholdInputs == {3, 100}

\* the samples read while a write may run: at charging_below (resume) and at
\* charging_limit with USB present (stop), or none
RaceSamples ==
    {s \in Samples :
        \/ s.kind # "ok"
        \/ /\ s.status = "Discharging"
           /\ s.capacity \in {charging_below, charging_limit}
           /\ s.usb = 1}

\* the one outcome of the actuator call a step can make
OneOutcome(ok) == [i \in 1..2 |-> ok]

\* what the interleaved steps leave alone
history == <<prev, seen_upper, ret>>

\* charger_limiter_worker, lines 60-75
WorkerBegin ==
    /\ work_pending /\ wpc = "idle"
    /\ last_op' = "worker"
    /\ work_pending' = FALSE
    /\ \E s \in RaceSamples :
         /\ sample' = s
         /\ IF s.kind = "nullpsy"
            THEN /\ oops' = TRUE
                 /\ wpc' = "dead"
                 /\ calls' = <<>>
                 /\ UNCHANGED <<charging_off, hw_charging, ms_timer>>
            ELSE IF s.kind = "noprop"
            THEN /\ wpc' = "requeue"
                 /\ ms_timer' = 5000
                 /\ calls' = <<>>
                 /\ UNCHANGED <<charging_off, hw_charging, oops>>
            ELSE \E ok \in BOOLEAN :
                 LET c == worker_resume_below(Entry, s, OneOutcome(ok)) IN
                 /\ charging_off' = c.off
                 /\ hw_charging' = c.hw
                 /\ calls' = c.calls
                 /\ ms_timer' = 1000
                 /\ wpc' = "upper"
                 /\ UNCHANGED oops
    /\ UNCHANGED <<cl_is_enabled, charge_should_off, enabled, charging_below,
                   charging_limit, wq, work_delay, batt, spc, requeue_refused, history>>

\* charger_limiter_worker, lines 77-90
WorkerUpper ==
    /\ wpc = "upper"
    /\ last_op' = "worker"
    /\ \E ok \in BOOLEAN :
         LET c == worker_upper_band(Entry, sample, OneOutcome(ok)) IN
         /\ charging_off' = c.off
         /\ charge_should_off' = c.should
         /\ hw_charging' = c.hw
         /\ calls' = c.calls
         /\ ms_timer' = c.ms
    /\ wpc' = "requeue"
    /\ UNCHANGED <<cl_is_enabled, enabled, charging_below, charging_limit, wq,
                   work_pending, work_delay, oops, sample, batt, spc,
                   requeue_refused, history>>

\* charger_limiter_worker, lines 92-93: reschedule_worker(ms_timer)
WorkerRequeue ==
    /\ wpc = "requeue"
    /\ last_op' = "worker"
    /\ calls' = <<>>
    /\ wpc' = "idle"
    /\ IF Cancelling
       THEN /\ requeue_refused' = TRUE
            /\ UNCHANGED <<work_pending, work_delay>>
       ELSE /\ work_pending' = TRUE
            /\ work_delay' = ms_timer
            /\ UNCHANGED requeue_refused
    /\ UNCHANGED <<charging_off, cl_is_enabled, charge_should_off, enabled,
                   charging_below, charging_limit, wq, hw_charging, oops, sample,
                   batt, spc, ms_timer, history>>

\* store_charging_below up to line 180, store_charging_limit up to line 212
ThresholdWrite ==
    /\ spc = "idle"
    /\ calls' = <<>>
    /\ \E input \in RaceThresholdInputs :
         \/ /\ last_op' = "store_charging_below"
            /\ charging_below' = clamp(input)
            /\ spc' = "below"
            /\ UNCHANGED charging_limit
         \/ /\ last_op' = "store_charging_limit"
            /\ charging_limit' = clamp(input)
            /\ spc' = "limit"
            /\ UNCHANGED charging_below
    /\ UNCHANGED <<charging_off, cl_is_enabled, charge_should_off, enabled, wq,
                   work_pending, work_delay, hw_charging, oops, sample, batt,
                   wpc, ms_timer, requeue_refused, history>>

\* store_charging_below, lines 182-185, and store_charging_limit, lines 214-217
ThresholdCheck ==
    /\ spc \in {"below", "limit"}
    /\ calls' = <<>>
    /\ spc' = "idle"
    /\ IF spc = "below"
       THEN /\ last_op' = "store_charging_below"
            /\ charging_below' = store_charging_below_value(charging_below)
            /\ UNCHANGED charging_limit
       ELSE /\ last_op' = "store_charging_limit"
            /\ charging_limit' = store_charging_limit_value(charging_limit)
            /\ UNCHANGED charging_below
    /\ UNCHANGED <<charging_off, cl_is_enabled, charge_should_off, enabled, wq,
                   work_pending, work_delay, hw_charging, oops, sample, batt,
                   wpc, ms_timer, requeue_refused, history>>

\* store_enabled with 1: start_charger_limiter
EnableWrite ==
    /\ spc = "idle"
    /\ last_op' = "store_enabled"
    /\ calls' = <<>>
    /\ enabled' = 1
    /\ IF cl_is_enabled
       THEN UNCHANGED <<cl_is_enabled, wq, work_pending, work_delay, requeue_refused>>
       ELSE \E alloc \in BOOLEAN :
            /\ wq' = IF alloc THEN "alive" ELSE "null"
            /\ work_pending' = alloc
            /\ work_delay' = IF alloc THEN 1000 ELSE work_delay
            /\ cl_is_enabled' = TRUE
            /\ requeue_refused' = FALSE
    /\ UNCHANGED <<charging_off, charge_should_off, charging_below, charging_limit,
                   hw_charging, oops, sample, batt, wpc, spc, ms_timer, history>>

\* store_enabled with 0, up to line 110 of stop_charger_limiter
DisableWrite ==
    /\ spc = "idle"
    /\ last_op' = "store_enabled"
    /\ calls' = <<>>
    /\ enabled' = 0
    /\ IF ~cl_is_enabled
       THEN UNCHANGED <<batt, spc, oops>>
       ELSE \E batt_psy \in BOOLEAN :
            /\ batt' = IF batt_psy THEN "found" ELSE "null"
            /\ IF wq = "alive"
               THEN spc' = "stop1" /\ UNCHANGED oops
               ELSE oops' = TRUE /\ UNCHANGED spc      \* destroy_workqueue(NULL)
    /\ UNCHANGED <<charging_off, cl_is_enabled, charge_should_off, charging_below,
                   charging_limit, wq, work_pending, work_delay, hw_charging,
                   sample, wpc, ms_timer, requeue_refused, history>>

\* the step of stop_charger_limiter the write is at
StopStep == stop_steps[IF spc = "stop1" THEN 1 ELSE 2]

\* stop_charger_limiter returns and store_enabled clears cl_is_enabled (line 149)
StopReturns(from) ==
    IF from \in {"stop2", "flush2"}
    THEN spc' = "idle" /\ cl_is_enabled' = FALSE
    ELSE spc' = "stop2" /\ UNCHANGED cl_is_enabled

\* cancel_delayed_work_sync takes the work off the queue
StopCancel ==
    /\ spc \in {"stop1", "stop2"} /\ StopStep = "cancel"
    /\ last_op' = "store_enabled"
    /\ calls' = <<>>
    /\ work_pending' = FALSE
    /\ spc' = IF spc = "stop1" THEN "flush1" ELSE "flush2"
    /\ UNCHANGED <<charging_off, cl_is_enabled, charge_should_off, enabled,
                   charging_below, charging_limit, wq, work_delay, hw_charging, oops,
                   sample, batt, wpc, ms_timer, requeue_refused, history>>

\* cancel_delayed_work_sync returns once no worker runs; destroy_workqueue
StopFlush ==
    /\ Cancelling
    /\ wpc = "idle"
    /\ last_op' = "store_enabled"
    /\ calls' = <<>>
    /\ wq' = "destroyed"
    /\ StopReturns(spc)
    /\ UNCHANGED <<charging_off, charge_should_off, enabled, charging_below,
                   charging_limit, work_pending, work_delay, hw_charging, oops,
                   sample, batt, wpc, ms_timer, requeue_refused, history>>

\* stop_charger_limiter, lines 115-116
StopResume ==
    /\ spc \in {"stop1", "stop2"} /\ StopStep = "resume"
    /\ last_op' = "store_enabled"
    /\ \E ok \in BOOLEAN :
         LET c == stop_charger_limiter(Entry, batt = "found", OneOutcome(ok)) IN
         /\ charging_off' = c.off
         /\ hw_charging' = c.hw
         /\ calls' = c.calls
    /\ StopReturns(spc)
    /\ UNCHANGED <<charge_should_off, enabled, charging_below, charging_limit, wq,
                   work_pending, work_delay, oops, sample, batt, wpc, ms_timer,
                   requeue_refused, history>>

RaceNext ==
    \/ WorkerBegin
    \/ WorkerUpper
    \/ WorkerRequeue
    \/ ThresholdWrite
    \/ ThresholdCheck
    \/ EnableWrite
    \/ DisableWrite
    \/ StopCancel
    \/ StopFlush
    \/ StopResume

RaceSpec == Init /\ [][RaceNext]_vars

----------------------------------------------------------------------------
(* Properties *)

\* the step is a cycle of the worker that read the sample it stores
Cycle == last_op' = "worker" /\ sample'.kind = "ok"

\* the step is a store_enabled that stops the running limiter
Stop ==
    /\ Running /\ ~WorkerDead
    /\ last_op' = "store_enabled"
    /\ ~cl_is_enabled'

\* the state after a store_enabled that stopped the limiter
Stopped ==
    /\ last_op = "store_enabled"
    /\ ret = "count"
    /\ batt # "none"

OneCall(cs, enable) == Len(cs) = 1 /\ cs[1].enable = enable

AllFailed(cs) == \A i \in 1..Len(cs) : ~cs[i].ok

\* C1 (as claimed): after every write of charging_below or charging_limit,
\* charging_limit - charging_below >= 5.
C1_GapInvariant ==
    last_op \in {"store_charging_below", "store_charging_limit"}
        => charging_limit - charging_below >= 5

\* C2 (as claimed): a cycle whose sample has capacity <= charging_below ends
\* with charging_off false.
C2_ResumeDominance ==
    (last_op = "worker" /\ sample.kind = "ok" /\ sample.capacity <= charging_below)
        => ~charging_off

\* C2 (amended): a cycle whose sample has capacity <= charging_below ends with
\* charging_off false, whatever the flags, the status and USB were, unless
\* every set_charging(true) call of the cycle failed: one call when the status
\* is not Charging and USB is absent, two calls otherwise.
C2_ResumeUnlessActuatorFails ==
    (last_op = "worker" /\ sample.kind = "ok" /\ sample.capacity <= charging_below)
        => \/ ~charging_off
           \/ /\ AllFailed(calls)
              /\ \A i \in 1..Len(calls) : calls[i].enable
              /\ Len(calls) = IF sample.status = "Charging" \/ sample.usb # 0 THEN 2 ELSE 1

\* a cycle resumed charging with the status not Charging and USB absent
C2_Witness ==
    /\ last_op = "worker" /\ sample.kind = "ok"
    /\ sample.capacity <= charging_below
    /\ sample.status = "Discharging" /\ sample.usb = 0
    /\ calls = <<[enable |-> TRUE, ok |-> TRUE]>>
    /\ ~charging_off

\* C3: from charging_off = FALSE and charge_should_off = FALSE, a cycle whose
\* sample is at or above charging_limit with Charging or USB makes no actuator
\* call, sets charge_should_off and requeues after 10000 ms; the cycle right
\* after it, with such a sample, calls set_charging(false) once and ends with
\* charge_should_off = FALSE.
C3_Debounce ==
    [][(Cycle /\ Upper(sample')) =>
         /\ (~charging_off /\ ~charge_should_off)
              => /\ calls' = <<>>
                 /\ charge_should_off'
                 /\ ~charging_off'
                 /\ work_pending' /\ work_delay' = 10000
         /\ Armed
              => /\ OneCall(calls', FALSE)
                 /\ ~charge_should_off']_vars

\* the second of two consecutive cycles at the limit has disabled charging
C3_Witness ==
    /\ prev = "armed"
    /\ last_op = "worker" /\ Upper(sample)
    /\ calls = <<[enable |-> FALSE, ok |-> TRUE]>>
    /\ charging_off /\ ~charge_should_off

\* C4: with charging_off true, a cycle whose sample has capacity >=
\* charging_limit makes no actuator call and leaves charging_off true.
C4_IdempotentActuation ==
    [][(charging_off /\ Cycle /\ sample'.capacity >= charging_limit)
         => calls' = <<>> /\ charging_off']_vars

\* a cycle at the limit ran with charging already off (it armed
\* charge_should_off, which only a cycle that does not stop does)
C4_Witness ==
    /\ last_op = "worker" /\ Upper(sample)
    /\ charging_off /\ charge_should_off
    /\ calls = <<>>

C7_NeverLeftDisabled ==
    ~cl_is_enabled => ~charging_off /\ hw_charging

\* C8 (as claimed): a cycle in which a power supply cannot be queried makes
\* no actuator call, leaves charging_off and charge_should_off as they were
\* and requeues the work after 5000 ms.
C8_UnavailableSample ==
    [][(last_op' = "worker" /\ sample'.kind \in {"noprop", "nullpsy"}) =>
         /\ calls' = <<>>
         /\ charging_off' = charging_off
         /\ charge_should_off' = charge_should_off
         /\ work_pending' /\ work_delay' = 5000]_vars

\* C9 (as claimed): after every write both thresholds are in 0..100, and so
\* is the value read back.
C9_ThresholdRange ==
    /\ charging_below \in 0..100
    /\ charging_limit \in 0..100
    /\ show(charging_below)[1] = 0 /\ show(charging_below)[2] \in 0..100
    /\ show(charging_limit)[1] = 0 /\ show(charging_limit)[2] \in 0..100

\* C10 (as claimed): charging_off and charge_should_off are never both true.
C10_NoSuppressedArmed ==
    ~(charging_off /\ charge_should_off)

\* the step is a store_enabled that starts the limiter
Start == ~cl_is_enabled /\ cl_is_enabled'

\* C11 (as claimed): at every start of the limiter charging_off and
\* charge_should_off are both false.
C11_FreshStateOnStart ==
    [][Start => ~charging_off' /\ ~charge_should_off']_vars

\* C12 (as claimed): when the actuator calls of a cycle fail, charging_off is
\* unchanged, the work is requeued after 1000 ms, and the next cycle, if it
\* reads the same sample, issues the same call again.
C12_RetryNextCycle ==
    [][Cycle =>
         /\ (calls' # <<>> /\ AllFailed(calls'))
              => charging_off' = charging_off /\ work_pending' /\ work_delay' = 1000
         /\ (Failed /\ sample' = sample)
              => calls' # <<>> /\ calls'[1].enable = calls[1].enable]_vars

\* C12 (amended): when the actuator calls of a cycle fail, charging_off is
\* unchanged and the work is requeued after 1000 ms.  If the next cycle reads
\* the same sample: after a failed resume it calls set_charging(true) again;
\* after a failed stop charge_should_off was cleared, so it makes no call,
\* sets charge_should_off and requeues after 10000 ms, and the cycle after
\* that one calls set_charging(false) again.
C12_RetryAfterFailure ==
    [][Cycle =>
         /\ (calls' # <<>> /\ AllFailed(calls'))
              => charging_off' = charging_off /\ work_pending' /\ work_delay' = 1000
         /\ (Failed /\ sample' = sample)
              => IF calls[1].enable
                 THEN calls' # <<>> /\ calls'[1].enable
                 ELSE /\ calls' = <<>>
                      /\ charge_should_off' /\ ~charging_off'
                      /\ work_delay' = 10000
         /\ (Armed /\ prev = "failed_stop" /\ sample' = sample)
              => OneCall(calls', FALSE)]_vars

\* the cycle after a failed stop has set charge_should_off again
C12_Witness ==
    /\ prev = "failed_stop"
    /\ Armed

\* C15 (as claimed): a cycle calls set_charging(false) only if the cycle
\* before it, since the start of the limiter, read a sample at or above
\* charging_limit with Charging or USB.
C15_ConsecutiveObservations ==
    [][(Cycle /\ \E i \in 1..Len(calls') : ~calls'[i].enable) => seen_upper]_vars

\* C16 (as claimed): every cycle requeues the work, after 5000 ms iff the
\* sample could not be read, after 10000 ms iff it set charge_should_off,
\* after 1000 ms otherwise; a start queues the first cycle after 1000 ms.
C16_PollInterval ==
    [][/\ last_op' = "worker" =>
            /\ work_pending'
            /\ work_delay' = IF sample'.kind # "ok" THEN 5000
                             ELSE IF charge_should_off' /\ ~charge_should_off THEN 10000
                             ELSE 1000
       /\ (Start /\ wq' = "alive") => work_pending' /\ work_delay' = 1000]_vars

\* C17: a cycle whose sample has capacity > charging_below, a status other
\* than Charging and no USB makes no actuator call and leaves charging_off
\* and charge_should_off as they were, also with capacity >= charging_limit.
C17_UpperBandGated ==
    [][(Cycle /\ sample'.capacity > charging_below
              /\ sample'.status # "Charging" /\ sample'.usb = 0)
         => /\ calls' = <<>>
            /\ charging_off' = charging_off
            /\ charge_should_off' = charge_should_off]_vars

\* a cycle at the limit without charging or USB has armed nothing
C17_Witness ==
    /\ last_op = "worker" /\ sample.kind = "ok"
    /\ sample.capacity >= charging_limit
    /\ sample.status = "Discharging" /\ sample.usb = 0
    /\ calls = <<>>
    /\ ~charging_off /\ ~charge_should_off
    /\ work_delay = 1000

\* C18: after every write charging_below < charging_limit, and a write
\* changes only the threshold it names.
C18_StrictOrdering ==
    [][/\ last_op' \in {"store_charging_below", "store_charging_limit"}
            => charging_below' < charging_limit'
       /\ last_op' = "store_charging_below" => charging_limit' = charging_limit
       /\ last_op' = "store_charging_limit" => charging_below' = charging_below]_vars

\* a write of charging_below that reached charging_limit was moved 5 under it
C18_Witness ==
    /\ last_op = "store_charging_below" /\ ret = "count"
    /\ charging_limit = 100
    /\ charging_below = 95

\* C19 (as claimed): no cycle makes more than one actuator call.
C19_OneCallPerCycle ==
    last_op = "worker" => Len(calls) <= 1

\* C20 (as claimed): while the limiter stays running a next cycle is always
\* queued again; and if from some point on the limiter stays enabled and
\* every cycle reads a sample at the limit with USB present and its actuator
\* calls succeed, charging_off eventually is true for good.
C20_Liveness ==
    /\ [](Running => <>(work_pending \/ ~cl_is_enabled))
    /\ (<>[](/\ cl_is_enabled
             /\ last_op = "worker"
                  => /\ Upper(sample) /\ sample.usb # 0
                     /\ \A i \in 1..Len(calls) : calls[i].ok))
          => <>[]charging_off

\* C13: the resume call of a stop is made only when no cycle runs and none is
\* queued; once store_enabled has cleared cl_is_enabled no cycle runs, none
\* is queued and no actuator call is made until the limiter is started
\* again, also when the write arrives while a cycle runs or is about to
\* requeue itself.
C13_StopSynchronous ==
    [][/\ (last_op' = "store_enabled" /\ calls' # <<>>)
            => wpc = "idle" /\ ~work_pending
       /\ ~cl_is_enabled' => wpc' = "idle" /\ ~work_pending'
       /\ (~cl_is_enabled /\ ~cl_is_enabled')
            => calls' = <<>> /\ last_op' # "worker"]_vars

\* a stop that arrived during a cycle has waited for it, the cycle's requeue
\* was refused, and the stop has made its resume call and returned
C13_Witness ==
    /\ requeue_refused
    /\ last_op = "store_enabled" /\ spc = "idle"
    /\ ~cl_is_enabled
    /\ calls = <<[enable |-> TRUE, ok |-> TRUE]>>
    /\ wpc = "idle" /\ ~work_pending

\* C14 (as claimed): whenever a cycle compares the capacity against the
\* thresholds, it finds a validated pair: charging_below < charging_limit.
C14_NoTornConfiguration ==
    [][(last_op' = "worker" /\ wpc \in {"idle", "upper"} /\ sample'.kind = "ok")
         => charging_below < charging_limit]_vars

====
